---- MODULE Spec2Model ----
(***************************************************************************)
(* A model of intelliparse/types.py: the SectionContent merge operator,    *)
(* the ParsedFile composition operators, views and schema inference, and   *)
(* the encoding of PageItem and Image values.                              *)
(*                                                                         *)
(* Python objects live in heaps (sequences indexed by object identity):    *)
(* `secs` holds the SectionContent objects, `files` the ParsedFile         *)
(* objects.  `calls` records every call made so far: the operation, the    *)
(* identities of its operands and the identity of the object it returned.  *)
(* `imgs` holds the Image objects, `tasks` the invocations in progress     *)
(* (schema inferences, threads) and `requests` the requests the external   *)
(* inference collaborator has received.                                    *)
(* A Python string is a sequence of atoms (an atom stands for one or more  *)
(* characters), so that concatenation is \o and an inserted separator is   *)
(* visible.  An Optional[T] value is <<>> for None and <<v>> for a         *)
(* present v.  A call either returns an object or raises.                  *)
(***************************************************************************)
EXTENDS Integers, Sequences, FiniteSets, TLC

VARIABLES secs, files, calls, imgs, tasks, requests

vars == <<secs, files, calls, imgs, tasks, requests>>

\* the variables the section and file operations never touch: the Image
\* objects, the running schema inferences and threads, and the requests the
\* inference collaborator has received
rest == <<imgs, tasks, requests>>

----------------------------------------------------------------------------
(* Bounds of the model. *)

\* section numbers are drawn from 1..MaxNumber
MaxNumber == 2
\* a parsed file handed over by a parser has at most MaxFileLen sections
MaxFileLen == 2
\* merge_all and from_parsed_files are given at most MaxOthers files
MaxOthers == 2

----------------------------------------------------------------------------
(* Values. *)

None == <<>>

Some(v) == <<v>>

\* Image(contents=..., name=...), the other fields left at their defaults
Image(contents, name) ==
    [contents |-> contents, ocr_text |-> None, height |-> None,
     width |-> None, name |-> name, alt |-> None]

TextPageItem(md, text) == [type |-> "text", md |-> md, text |-> text]

HeadingPageItem(md, heading, lvl) ==
    [type |-> "heading", md |-> md, heading |-> heading, lvl |-> lvl]

TablePageItem(md, rows, csv, is_perfect_table) ==
    [type |-> "table", md |-> md, rows |-> rows, csv |-> csv,
     is_perfect_table |-> is_perfect_table]

SectionContent(number, text, md, images, items) ==
    [number |-> number, text |-> text, md |-> md, images |-> images,
     items |-> items]

----------------------------------------------------------------------------
(* The inputs the parsers hand over (bounded). *)

img1 == Image("png-1", Some(<<"l", "o", "g", "o">>))

img2 == Image("png-2", None)

itemText == TextPageItem(<<"t">>, <<"t">>)

itemHeading == HeadingPageItem(<<"#", "h">>, <<"h">>, 1)

itemTable == TablePageItem(<<"|", "c", "|">>, <<<<<<"c">>>>>>, <<"c">>, TRUE)

Texts == {<<>>, <<"a">>, <<"b">>}

Markups == {None, Some(<<>>), Some(<<"x">>), Some(<<"y">>)}

ImageSeqs == {<<>>, <<img1>>, <<img2, img1>>}

ItemSeqs == {<<>>, <<itemText>>, <<itemHeading, itemTable>>}

Sections ==
    {SectionContent(n, t, m, im, it) :
        n \in 1..MaxNumber, t \in Texts, m \in Markups,
        im \in ImageSeqs, it \in ItemSeqs}

----------------------------------------------------------------------------
(* SectionContent.__add__ *)

\* `md or ""`: None and the empty string are both falsy
MdOrEmpty(md) == IF md = None \/ md[1] = <<>> THEN <<>> ELSE md[1]

\* list(chain(xs, ys)), with the operands in the other order
ChainSwapped(xs, ys) == ys \o xs

\* list(chain(xs, ys))
Chain(xs, ys) == xs \o ys

\* __add__ taking the number of the right operand
SectionContent_add_RightNumber(self, other) ==
    SectionContent(other.number,
                   self.text \o other.text,
                   Some(MdOrEmpty(self.md) \o MdOrEmpty(other.md)),
                   Chain(self.images, other.images),
                   Chain(self.items, other.items))

\* __add__ joining the texts with a blank
SectionContent_add_TextSeparator(self, other) ==
    SectionContent(self.number,
                   self.text \o <<" ">> \o other.text,
                   Some(MdOrEmpty(self.md) \o MdOrEmpty(other.md)),
                   Chain(self.images, other.images),
                   Chain(self.items, other.items))

\* __add__ leaving md None when neither operand has markup
SectionContent_add_NoneMd(self, other) ==
    SectionContent(self.number,
                   self.text \o other.text,
                   IF self.md = None /\ other.md = None THEN None
                   ELSE Some(MdOrEmpty(self.md) \o MdOrEmpty(other.md)),
                   Chain(self.images, other.images),
                   Chain(self.items, other.items))

\* __add__ falling back to the right operand's text when it has no markup
SectionContent_add_TextFallback(self, other) ==
    SectionContent(self.number,
                   self.text \o other.text,
                   Some(MdOrEmpty(self.md) \o
                        (IF MdOrEmpty(other.md) = <<>> THEN other.text
                         ELSE other.md[1])),
                   Chain(self.images, other.images),
                   Chain(self.items, other.items))

\* the SectionContent that self + other constructs
SectionContent_add(self, other) ==
    SectionContent(self.number,
                   self.text \o other.text,
                   Some(MdOrEmpty(self.md) \o MdOrEmpty(other.md)),
                   Chain(self.images, other.images),
                   Chain(self.items, other.items))

\* self + other extending self in place and returning it
SectionAddInPlace(h, i, j) ==
    [heap |-> [h EXCEPT ![i] = SectionContent_add(h[i], h[j])],
     ret |-> i, raised |-> None]

\* the effect of secs[i] + secs[j] on the heap h: a new object is
\* constructed and returned, no existing object is written
SectionAddHeap(h, i, j) ==
    [heap |-> Append(h, SectionContent_add(h[i], h[j])),
     ret |-> Len(h) + 1, raised |-> None]

\* the record of one call: the operands are the objects args (identities)
\* and the values input; the call returned object ret, or raised
Call(op, args, input, r) ==
    [op |-> op, args |-> args, input |-> input, ret |-> r.ret,
     raised |-> r.raised]

SectionAdd(i, j) ==
    /\ LET r == SectionAddHeap(secs, i, j) IN
        /\ secs' = r.heap
        /\ calls' = Append(calls, Call("add", <<i, j>>, <<>>, r))
    /\ UNCHANGED <<files, rest>>

----------------------------------------------------------------------------
(* A client that holds two sections and merges two of the sections it     *)
(* holds (possibly one with itself).                                       *)

InitSection ==
    /\ secs \in [1..2 -> Sections]
    /\ files = <<>>
    /\ calls = <<>>
    /\ imgs = <<>>
    /\ tasks = <<>>
    /\ requests = <<>>

\* the client has made no call yet
Idle == calls = <<>>

NextSection ==
    \E i \in DOMAIN secs, j \in DOMAIN secs : Idle /\ SectionAdd(i, j)

SpecSection == InitSection /\ [][NextSection]_vars

\* the calls of operation op made so far
CallsOf(op) == {k \in DOMAIN calls : calls[k].op = op}

\* C1: the section returned by a + b has a's number, whatever b's number is
C1_MergeKeepsLeftNumber ==
    \A k \in CallsOf("add") :
        /\ calls[k].raised = None
        /\ secs[calls[k].ret].number = secs[calls[k].args[1]].number

\* a merge of two sections with different numbers has returned
C1_Witness ==
    \E k \in CallsOf("add") :
        /\ calls[k].raised = None
        /\ secs[calls[k].args[1]].number # secs[calls[k].args[2]].number

\* C2: the text of a + b is a.text followed by b.text and nothing else
C2_MergeTextIsConcatenation ==
    \A k \in CallsOf("add") :
        LET a == secs[calls[k].args[1]]
            b == secs[calls[k].args[2]]
            r == secs[calls[k].ret]
        IN  /\ Len(r.text) = Len(a.text) + Len(b.text)
            /\ SubSeq(r.text, 1, Len(a.text)) = a.text
            /\ SubSeq(r.text, Len(a.text) + 1, Len(r.text)) = b.text

\* a merge of two sections with different non-empty texts has returned
C2_Witness ==
    \E k \in CallsOf("add") :
        LET a == secs[calls[k].args[1]]
            b == secs[calls[k].args[2]]
        IN  a.text # <<>> /\ b.text # <<>> /\ a.text # b.text

\* absent markup read as the empty string
MarkupOrEmpty(md) == IF md = None THEN <<>> ELSE md[1]

\* C3: the markup of a + b is present and is a's markup followed by b's,
\* an absent markup counting as the empty string
C3_MergeMarkupNeverAbsent ==
    \A k \in CallsOf("add") :
        LET a == secs[calls[k].args[1]]
            b == secs[calls[k].args[2]]
            r == secs[calls[k].ret]
        IN  /\ r.md # None
            /\ r.md = Some(MarkupOrEmpty(a.md) \o MarkupOrEmpty(b.md))

\* a merge of two sections that both lack markup has returned
C3_Witness ==
    \E k \in CallsOf("add") :
        /\ secs[calls[k].args[1]].md = None
        /\ secs[calls[k].args[2]].md = None
        /\ calls[k].args[1] # calls[k].args[2]

\* r is xs followed by ys: nothing dropped, duplicated or reordered
IsLeftThenRight(r, xs, ys) ==
    /\ Len(r) = Len(xs) + Len(ys)
    /\ \A n \in 1..Len(xs) : r[n] = xs[n]
    /\ \A n \in 1..Len(ys) : r[Len(xs) + n] = ys[n]

\* C4: the images (items) of a + b are a's images (items) followed by b's
C4_MergeSequencesLeftThenRight ==
    \A k \in CallsOf("add") :
        LET a == secs[calls[k].args[1]]
            b == secs[calls[k].args[2]]
            r == secs[calls[k].ret]
        IN  /\ IsLeftThenRight(r.images, a.images, b.images)
            /\ IsLeftThenRight(r.items, a.items, b.items)

\* a merge of two sections with different non-empty images and items has
\* returned
C4_Witness ==
    \E k \in CallsOf("add") :
        LET a == secs[calls[k].args[1]]
            b == secs[calls[k].args[2]]
        IN  /\ Len(a.images) = 2 /\ Len(b.images) = 1
            /\ Len(a.items) = 1 /\ Len(b.items) = 2

\* C5: a + b leaves every existing section as it was and returns a new
\* section, distinct from both operands
C5_MergeNeverMutates ==
    [][\A k \in DOMAIN calls' :
          (k \notin DOMAIN calls /\ calls'[k].op = "add") =>
              /\ \A i \in DOMAIN secs :
                    i \in DOMAIN secs' /\ secs'[i] = secs[i]
              /\ calls'[k].ret \in DOMAIN secs' \ DOMAIN secs
              /\ calls'[k].ret \notin {calls'[k].args[1], calls'[k].args[2]}
      ]_vars

\* a merge has returned a section that differs from its left operand
C5_Witness ==
    \E k \in CallsOf("add") :
        /\ calls[k].raised = None
        /\ secs[calls[k].ret] # secs[calls[k].args[1]]
        /\ secs[calls[k].args[2]].text # <<>>

----------------------------------------------------------------------------
(* A client that holds three sections a, b, c (objects 1, 2, 3) and        *)
(* computes (a + b) + c and a + (b + c).                                   *)

\* the text, images and items of the sections this client holds
Bodies ==
    {<<<<>>, <<>>, <<>>>>,
     <<<<"a">>, <<img1>>, <<itemText>>>>,
     <<<<"b">>, <<img2, img1>>, <<>>>>,
     <<<<"a">>, <<>>, <<itemHeading, itemTable>>>>}

AssocSections ==
    {SectionContent(n, bd[1], m, bd[2], bd[3]) :
        n \in 1..MaxNumber, m \in Markups, bd \in Bodies}

\* the operands (object identities) of the client's calls, in order:
\* ab = a + b, left = ab + c, bc = b + c, right = a + bc
AssocScript == <<<<1, 2>>, <<4, 3>>, <<2, 3>>, <<1, 6>>>>

InitAssoc ==
    /\ secs \in [1..3 -> AssocSections]
    /\ files = <<>>
    /\ calls = <<>>
    /\ imgs = <<>>
    /\ tasks = <<>>
    /\ requests = <<>>

NextAssoc ==
    /\ Len(calls) < Len(AssocScript)
    /\ SectionAdd(AssocScript[Len(calls) + 1][1],
                  AssocScript[Len(calls) + 1][2])

SpecAssoc == InitAssoc /\ [][NextAssoc]_vars

\* calls k1..k4 compute (a + b) + c (returned by k2) and a + (b + c)
\* (returned by k4) for some sections a, b, c
IsAssocPattern(k1, k2, k3, k4) ==
    /\ {k1, k2, k3, k4} \subseteq CallsOf("add")
    /\ calls[k2].args = <<calls[k1].ret, calls[k3].args[2]>>
    /\ calls[k3].args[1] = calls[k1].args[2]
    /\ calls[k4].args = <<calls[k1].args[1], calls[k3].ret>>

\* C6: (a + b) + c and a + (b + c) agree in number, text, md, images and
\* items
C6_MergeAssociative ==
    \A k1, k2, k3, k4 \in DOMAIN calls :
        IsAssocPattern(k1, k2, k3, k4) =>
            LET l == secs[calls[k2].ret]
                r == secs[calls[k4].ret]
            IN  /\ l.number = r.number
                /\ l.text = r.text
                /\ l.md = r.md
                /\ l.images = r.images
                /\ l.items = r.items

\* both groupings have been computed for sections a and b without markup
\* and a section c with markup, b and c with text, a and c numbered apart
C6_Witness ==
    \E k1, k2, k3, k4 \in DOMAIN calls :
        /\ IsAssocPattern(k1, k2, k3, k4)
        /\ secs[calls[k1].args[1]].md = None
        /\ secs[calls[k1].args[2]].md = None
        /\ secs[calls[k3].args[2]].md \notin {None, Some(<<>>)}
        /\ secs[calls[k1].args[2]].text # <<>>
        /\ secs[calls[k3].args[2]].text # <<>>
        /\ secs[calls[k1].args[1]].number # secs[calls[k3].args[2]].number

----------------------------------------------------------------------------
(* ParsedFile: merge_all, from_sections, from_parsed_files *)

ParsedFile(name, sections) == [name |-> name, sections |-> sections]

\* the name from_parsed_files gives its result
MergedFileName == <<"MergedFile">>

\* list(chain(*lists))
RECURSIVE ChainAll(_)
ChainAll(lists) ==
    IF lists = <<>> THEN <<>> ELSE Head(lists) \o ChainAll(Tail(lists))

\* [f.sections for f in fs]
SectionsOf(fs) == [k \in 1..Len(fs) |-> fs[k].sections]

\* merge_all chaining only the others' sections
ParsedFile_merge_all_DropSelf(self, others) ==
    ParsedFile(self.name, ChainAll(SectionsOf(others)))

\* merge_all numbering the merged sections 1, 2, ...
ParsedFile_merge_all_Renumber(self, others) ==
    LET ss == ChainAll(<<self.sections>> \o SectionsOf(others))
    IN  ParsedFile(self.name,
                   [k \in 1..Len(ss) |-> [ss[k] EXCEPT !.number = k]])

\* the ParsedFile that self.merge_all(others) constructs
ParsedFile_merge_all(self, others) ==
    ParsedFile(self.name, ChainAll(<<self.sections>> \o SectionsOf(others)))

\* ParsedFile.from_sections(name, sections)
ParsedFile_from_sections(name, sections) == ParsedFile(name, sections)

\* from_parsed_files chaining the files after the first one only
ParsedFile_from_parsed_files_SkipFirst(fs) ==
    ParsedFile(MergedFileName,
               ChainAll(SectionsOf(IF fs = <<>> THEN fs ELSE Tail(fs))))

\* from_parsed_files naming the result after the first file
ParsedFile_from_parsed_files_FirstName(fs) ==
    ParsedFile(IF fs = <<>> THEN MergedFileName ELSE fs[1].name,
               ChainAll(SectionsOf(fs)))

\* the ParsedFile that ParsedFile.from_parsed_files(fs) constructs
ParsedFile_from_parsed_files(fs) ==
    ParsedFile(MergedFileName, ChainAll(SectionsOf(fs)))

\* the objects with identities ids, in order
Deref(h, ids) == [k \in 1..Len(ids) |-> h[ids[k]]]

\* the effect of files[i].merge_all(others) on the heap h
MergeAllHeap(h, i, others) ==
    [heap |-> Append(h, ParsedFile_merge_all(h[i], Deref(h, others))),
     ret |-> Len(h) + 1, raised |-> None]

\* the effect of ParsedFile.from_sections(name, sections) on the heap h
FromSectionsHeap(h, name, sections) ==
    [heap |-> Append(h, ParsedFile_from_sections(name, sections)),
     ret |-> Len(h) + 1, raised |-> None]

\* from_parsed_files folding the files with functools.reduce and no
\* initial value: reduce raises TypeError on an empty sequence
FromParsedFilesReduce(h, ids) ==
    IF ids = <<>>
    THEN [heap |-> h, ret |-> 0, raised |-> Some("TypeError")]
    ELSE [heap |-> Append(h, ParsedFile_from_parsed_files(Deref(h, ids))),
          ret |-> Len(h) + 1, raised |-> None]

\* the effect of ParsedFile.from_parsed_files(files) on the heap h
FromParsedFilesHeap(h, ids) ==
    [heap |-> Append(h, ParsedFile_from_parsed_files(Deref(h, ids))),
     ret |-> Len(h) + 1, raised |-> None]

MergeAll(i, others) ==
    /\ LET r == MergeAllHeap(files, i, others) IN
        /\ files' = r.heap
        /\ calls' = Append(calls, Call("merge_all", <<i>> \o others, <<>>, r))
    /\ UNCHANGED <<secs, rest>>

FromSections(name, sections) ==
    /\ LET r == FromSectionsHeap(files, name, sections) IN
        /\ files' = r.heap
        /\ calls' = Append(calls, Call("from_sections", <<>>,
                                       <<name, sections>>, r))
    /\ UNCHANGED <<secs, rest>>

FromParsedFiles(ids) ==
    /\ LET r == FromParsedFilesHeap(files, ids) IN
        /\ files' = r.heap
        /\ calls' = Append(calls, Call("from_parsed_files", ids, <<>>, r))
    /\ UNCHANGED <<secs, rest>>

----------------------------------------------------------------------------
(* A client that holds two parsed files and builds one more, from the     *)
(* files it holds or from sections.                                        *)

\* the sequences over S of length at most n
SeqsUpTo(S, n) == UNION {[1..k -> S] : k \in 0..n}

FileNames == {<<"f1">>, <<"f2">>}

\* the sections of the files the parsers hand over: two share a number
FileSections ==
    {SectionContent(1, <<"a">>, None, <<>>, <<>>),
     SectionContent(1, <<"b">>, Some(<<"x">>), <<img1>>, <<itemText>>),
     SectionContent(2, <<"a">>, Some(<<"y">>), <<>>,
                    <<itemHeading, itemTable>>)}

Files ==
    {ParsedFile(nm, ss) :
        nm \in FileNames, ss \in SeqsUpTo(FileSections, MaxFileLen)}

InitFile ==
    /\ secs = <<>>
    /\ files \in [1..2 -> Files]
    /\ calls = <<>>
    /\ imgs = <<>>
    /\ tasks = <<>>
    /\ requests = <<>>

NextFile ==
    \/ \E i \in DOMAIN files, others \in SeqsUpTo(DOMAIN files, MaxOthers) :
          Idle /\ MergeAll(i, others)
    \/ \E ids \in SeqsUpTo(DOMAIN files, MaxOthers) :
          Idle /\ FromParsedFiles(ids)
    \/ \E nm \in FileNames, ss \in SeqsUpTo(FileSections, MaxFileLen) :
          Idle /\ FromSections(nm, ss)

SpecFile == InitFile /\ [][NextFile]_vars

\* the number of sections of the files ids[1..p], as held in heap h
RECURSIVE CountSections(_, _, _)
CountSections(h, ids, p) ==
    IF p = 0 THEN 0
    ELSE CountSections(h, ids, p - 1) + Len(h[ids[p]].sections)

\* ss is the sections of the files ids as held in heap h, file after file,
\* each file's sections in their order
IsSectionsInOrder(ss, h, ids) ==
    /\ Len(ss) = CountSections(h, ids, Len(ids))
    /\ \A p \in 1..Len(ids) :
          \A n \in 1..Len(h[ids[p]].sections) :
              ss[CountSections(h, ids, p - 1) + n] = h[ids[p]].sections[n]

\* C7: merge_all(primary, others) returns a file named after primary whose
\* sections are primary's, then those of others[1], others[2], ...; their
\* number is the sum of the operands' section counts
C7_MergeAllConcatenates ==
    \A k \in CallsOf("merge_all") :
        /\ calls[k].raised = None
        /\ files[calls[k].ret].name = files[calls[k].args[1]].name
        /\ IsSectionsInOrder(files[calls[k].ret].sections, files,
                             calls[k].args)

\* merge_all has returned for a non-empty primary and two different
\* non-empty others, the first named unlike the primary
C7_Witness ==
    \E k \in CallsOf("merge_all") :
        LET a == calls[k].args IN
        /\ Len(a) = 3
        /\ \A p \in 1..3 : files[a[p]].sections # <<>>
        /\ files[a[2]].sections # files[a[3]].sections
        /\ files[a[2]].name # files[a[1]].name

\* merge_all with no others has returned
C7_WitnessNoOthers ==
    \E k \in CallsOf("merge_all") :
        Len(calls[k].args) = 1 /\ files[calls[k].args[1]].sections # <<>>

\* C8: merge_all leaves its input files as they were and returns a new
\* file in which every section is the corresponding input section with all
\* its fields as before the call: none renumbered, none dropped as a
\* duplicate
C8_MergeAllNoRenumberNoDedupNoMutation ==
    [][\A k \in DOMAIN calls' :
          (k \notin DOMAIN calls /\ calls'[k].op = "merge_all") =>
              /\ \A i \in DOMAIN files :
                    i \in DOMAIN files' /\ files'[i] = files[i]
              /\ calls'[k].ret \in DOMAIN files' \ DOMAIN files
              /\ IsSectionsInOrder(files'[calls'[k].ret].sections, files,
                                   calls'[k].args)
      ]_vars

\* merge_all of a file f1 with one section numbered 1 and a file f2 with
\* one other section numbered 1 has returned two sections numbered 1
C8_Witness ==
    \E k \in CallsOf("merge_all") :
        LET a == calls[k].args IN
        /\ Len(a) = 2
        /\ Len(files[a[1]].sections) = 1
        /\ Len(files[a[2]].sections) = 1
        /\ files[a[1]].sections[1].number = 1
        /\ files[a[2]].sections[1].number = 1
        /\ files[a[1]].sections[1] # files[a[2]].sections[1]
        /\ Len(files[calls[k].ret].sections) = 2
        /\ \A n \in 1..2 : files[calls[k].ret].sections[n].number = 1

\* C9: from_parsed_files returns a file named "MergedFile" whose sections
\* are the sections of the inputs, file after file in input order
C9_FromParsedFilesSentinelName ==
    \A k \in CallsOf("from_parsed_files") :
        /\ calls[k].raised = None
        /\ files[calls[k].ret].name = <<"MergedFile">>
        /\ IsSectionsInOrder(files[calls[k].ret].sections, files,
                             calls[k].args)

\* from_parsed_files has returned for two different non-empty files
C9_Witness ==
    \E k \in CallsOf("from_parsed_files") :
        LET a == calls[k].args IN
        /\ Len(a) = 2
        /\ files[a[1]].sections # <<>>
        /\ files[a[2]].sections # <<>>
        /\ files[a[1]] # files[a[2]]

\* C10: from_parsed_files of no files returns, and returns a file named
\* "MergedFile" with no sections
C10_FromParsedFilesEmpty ==
    \A k \in CallsOf("from_parsed_files") :
        calls[k].args = <<>> =>
            /\ calls[k].raised = None
            /\ files[calls[k].ret].name = <<"MergedFile">>
            /\ files[calls[k].ret].sections = <<>>

\* from_parsed_files of no files has been called
C10_Witness ==
    \E k \in CallsOf("from_parsed_files") :
        calls[k].args = <<>> /\ calls[k].raised = None

----------------------------------------------------------------------------
(* ParsedFile: the derived views md and llm_described_text *)

\* sep.join(parts)
RECURSIVE Join(_, _)
Join(parts, sep) ==
    IF parts = <<>> THEN <<>>
    ELSE IF Len(parts) = 1 THEN parts[1]
    ELSE parts[1] \o sep \o Join(Tail(parts), sep)

Digits == <<"0", "1", "2", "3", "4", "5", "6", "7", "8", "9">>

\* str(i) of an int i >= 0, as an f-string formats it
RECURSIVE FormatInt(_)
FormatInt(i) ==
    IF i < 10 THEN <<Digits[i + 1]>>
    ELSE FormatInt(i \div 10) \o <<Digits[(i % 10) + 1]>>

\* the section's md formatted as `md or ""`
FormatOptionalStr_Empty(md) == IF md = None THEN <<>> ELSE md[1]

\* str(md) of an Optional[str], as an f-string formats it
FormatOptionalStr(md) == IF md = None THEN <<"None">> ELSE md[1]

\* ParsedFile.md formatting every section's md with str()
ParsedFile_md_StrNone(self) ==
    Join([k \in 1..Len(self.sections) |->
             FormatOptionalStr(self.sections[k].md)], <<"\n">>)

\* ParsedFile.md: "\n".join([sec.md or "" for sec in self.sections])
ParsedFile_md(self) ==
    Join([k \in 1..Len(self.sections) |-> MdOrEmpty(self.sections[k].md)],
         <<"\n">>)

\* f"<section_{num}> {section.md} </section_{num}>"
SectionTagged(num, section) ==
    <<"<section_">> \o FormatInt(num) \o <<">", " ">>
        \o FormatOptionalStr(section.md)
        \o <<" ", "</section_">> \o FormatInt(num) \o <<">">>

\* llm_described_text tagging each section with its number field
ParsedFile_llm_described_text_ByNumber(self) ==
    LET sections ==
            Join([k \in 1..Len(self.sections) |->
                     SectionTagged(self.sections[k].number, self.sections[k])],
                 <<" ">>)
    IN  <<"<file>", "\n", "\n", "**name:**", " ">> \o self.name
            \o <<" ", "\n", "**sections:**", " ">> \o sections
            \o <<"\n", "\n", "</file>">>

\* ParsedFile.llm_described_text; enumerate() counts from 0
ParsedFile_llm_described_text(self) ==
    LET sections ==
            Join([k \in 1..Len(self.sections) |->
                     SectionTagged(k - 1, self.sections[k])],
                 <<" ">>)
    IN  <<"<file>", "\n", "\n", "**name:**", " ">> \o self.name
            \o <<" ", "\n", "**sections:**", " ">> \o sections
            \o <<"\n", "\n", "</file>">>

\* reading the property files[i].md: the string is returned, no object is
\* constructed or written
Md(i) ==
    /\ calls' = Append(calls, Call("md", <<i>>, <<>>,
                   [ret |-> ParsedFile_md(files[i]), raised |-> None]))
    /\ UNCHANGED <<secs, files, rest>>

\* reading the property files[i].llm_described_text
LlmDescribedText(i) ==
    /\ calls' = Append(calls, Call("llm_described_text", <<i>>, <<>>,
                   [ret |-> ParsedFile_llm_described_text(files[i]),
                    raised |-> None]))
    /\ UNCHANGED <<secs, files, rest>>

----------------------------------------------------------------------------
(* A client that holds two parsed files and reads one view of one of them. *)

\* a section whose markup spells a delimiter tag
sectionTagInMarkup ==
    SectionContent(2, <<"b">>, Some(<<"<section_", "0", ">">>), <<>>, <<>>)

ViewFiles ==
    {ParsedFile(nm, ss) :
        nm \in FileNames,
        ss \in SeqsUpTo(FileSections \cup {sectionTagInMarkup}, MaxFileLen)}

InitView ==
    /\ secs = <<>>
    /\ files \in [1..2 -> ViewFiles]
    /\ calls = <<>>
    /\ imgs = <<>>
    /\ tasks = <<>>
    /\ requests = <<>>

NextView ==
    \/ \E i \in DOMAIN files : Idle /\ Md(i)
    \/ \E i \in DOMAIN files : Idle /\ LlmDescribedText(i)

SpecView == InitView /\ [][NextView]_vars

\* the number of atoms of text t equal to atom
Occurrences(t, atom) == Cardinality({x \in 1..Len(t) : t[x] = atom})

\* the markups of the first n of the sections ss, absent read as empty,
\* one after the other with a single line break between two of them
RECURSIVE MarkupLines(_, _)
MarkupLines(ss, n) ==
    IF n = 0 THEN <<>>
    ELSE IF n = 1 THEN MarkupOrEmpty(ss[1].md)
    ELSE MarkupLines(ss, n - 1) \o <<"\n">> \o MarkupOrEmpty(ss[n].md)

\* the total length of the markups of the first n of the sections ss
RECURSIVE MarkupLength(_, _)
MarkupLength(ss, n) ==
    IF n = 0 THEN 0
    ELSE MarkupLength(ss, n - 1) + Len(MarkupOrEmpty(ss[n].md))

\* C11: the md view is the sections' markups in section order with one
\* line break between consecutive sections (n - 1 for n >= 1 sections); a
\* section without markup contributes the empty string, never "None"
C11_MdViewJoinsMarkups ==
    \A k \in CallsOf("md") :
        LET ss == files[calls[k].args[1]].sections
            n == Len(ss)
        IN  /\ calls[k].raised = None
            /\ calls[k].ret = MarkupLines(ss, n)
            /\ Len(calls[k].ret) =
                   MarkupLength(ss, n) + (IF n = 0 THEN 0 ELSE n - 1)
            /\ (\A j \in 1..n : Occurrences(MarkupOrEmpty(ss[j].md), "None") = 0)
                   => Occurrences(calls[k].ret, "None") = 0

\* the md view of a file of two sections, the first without markup and the
\* second with markup, has been read
C11_Witness ==
    \E k \in CallsOf("md") :
        LET ss == files[calls[k].args[1]].sections
        IN  /\ Len(ss) = 2
            /\ ss[1].md = None
            /\ ss[2].md \notin {None, Some(<<>>)}
            /\ calls[k].ret = <<"\n">> \o ss[2].md[1]

\* what llm_described_text puts around the sections
LlmHead(name) ==
    <<"<file>", "\n", "\n", "**name:**", " ">> \o name
        \o <<" ", "\n", "**sections:**", " ">>

LlmTail == <<"\n", "\n", "</file>">>

\* section s between the delimiter tags of position i
LlmWrapped(i, s) ==
    <<"<section_">> \o FormatInt(i) \o <<">", " ">>
        \o (IF s.md = None THEN <<"None">> ELSE s.md[1])
        \o <<" ", "</section_">> \o FormatInt(i) \o <<">">>

\* the first n of the sections ss, each between the tags of its zero-based
\* position, in order, a blank between two of them
RECURSIVE LlmSections(_, _)
LlmSections(ss, n) ==
    IF n = 0 THEN <<>>
    ELSE IF n = 1 THEN LlmWrapped(0, ss[1])
    ELSE LlmSections(ss, n - 1) \o <<" ">> \o LlmWrapped(n - 1, ss[n])

\* the number of atoms equal to atom in the markups of the first n of the
\* sections ss
RECURSIVE OccurrencesInMarkups(_, _, _)
OccurrencesInMarkups(ss, n, atom) ==
    IF n = 0 THEN 0
    ELSE OccurrencesInMarkups(ss, n - 1, atom)
             + Occurrences(MarkupOrEmpty(ss[n].md), atom)

\* the number of atoms equal to atom in the name and the markups of file f
OccurrencesInFile(f, atom) ==
    Occurrences(f.name, atom)
        + OccurrencesInMarkups(f.sections, Len(f.sections), atom)

\* C12: llm_described_text holds the file's name and, for a file of n
\* sections, exactly n pairs of delimiter tags: section i (zero-based
\* position, whatever its number field) between <section_i> and
\* </section_i>, in section order; the view adds n opening and n closing
\* tags to whatever the name and the markups themselves contain
C12_LlmViewTagsByPosition ==
    \A k \in CallsOf("llm_described_text") :
        LET f == files[calls[k].args[1]]
            n == Len(f.sections)
            out == calls[k].ret
        IN  /\ calls[k].raised = None
            /\ out = LlmHead(f.name) \o LlmSections(f.sections, n) \o LlmTail
            /\ Occurrences(out, "<section_") =
                   n + OccurrencesInFile(f, "<section_")
            /\ Occurrences(out, "</section_") =
                   n + OccurrencesInFile(f, "</section_")

\* llm_described_text of a file of two sections whose number fields are
\* not their positions has been read
C12_Witness ==
    \E k \in CallsOf("llm_described_text") :
        LET f == files[calls[k].args[1]]
        IN  /\ Len(f.sections) = 2
            /\ f.sections[1].number = 2
            /\ f.sections[2].number = 1
            /\ f.sections[2].md = None
            /\ Occurrences(calls[k].ret, "<section_") = 2

----------------------------------------------------------------------------
(* PageItem on the wire.  The classes are msgspec Structs sharing          *)
(* tag_field="type"; an encoded struct is an object, here the sequence of  *)
(* its <<key, value>> pairs, the tag first and the fields in declaration   *)
(* order.  A class is named by its tag.                                    *)

\* an instance of the base class: PageItem(md=...)
PageItem(md) == [type |-> "PageItem", md |-> md]

\* the tag of each class: the subclasses declare theirs, the base class
\* sets only tag_field and so is tagged with its class name
StructTag(cls) ==
    CASE cls = "text" -> "text"
      [] cls = "heading" -> "heading"
      [] cls = "table" -> "table"
      [] cls = "PageItem" -> "PageItem"

\* the fields of each class that have no default
RequiredFields(cls) ==
    CASE cls = "text" -> <<"md", "text">>
      [] cls = "heading" -> <<"md", "heading", "lvl">>
      [] cls = "table" -> <<"md", "rows", "csv">>
      [] cls = "PageItem" -> <<"md">>

\* encoding an item: the tag of its class, then its fields
EncodePageItem(item) ==
    <<<<"type", StructTag(item.type)>>, <<"md", item.md>>>> \o
    (CASE item.type = "text" -> <<<<"text", item.text>>>>
       [] item.type = "heading" ->
            <<<<"heading", item.heading>>, <<"lvl", item.lvl>>>>
       [] item.type = "table" ->
            <<<<"rows", item.rows>>, <<"csv", item.csv>>,
              <<"is_perfect_table", item.is_perfect_table>>>>
       [] item.type = "PageItem" -> <<>>)

HasKey(payload, key) == \E k \in DOMAIN payload : payload[k][1] = key

ValueOf(payload, key) ==
    payload[CHOOSE k \in DOMAIN payload : payload[k][1] = key][2]

\* decoding an object as the Struct class cls: a tag that is present must
\* be the tag of cls, the required fields must be present, keys that are
\* no field of cls are skipped; subclasses of cls are not considered
DecodeStruct(payload, cls) ==
    IF HasKey(payload, "type") /\ ValueOf(payload, "type") # StructTag(cls)
    THEN [value |-> None, raised |-> Some("ValidationError")]
    ELSE IF \E n \in DOMAIN RequiredFields(cls) :
                ~HasKey(payload, RequiredFields(cls)[n])
    THEN [value |-> None, raised |-> Some("ValidationError")]
    ELSE [value |->
            Some(CASE cls = "text" ->
                        TextPageItem(ValueOf(payload, "md"),
                                     ValueOf(payload, "text"))
                   [] cls = "heading" ->
                        HeadingPageItem(ValueOf(payload, "md"),
                                        ValueOf(payload, "heading"),
                                        ValueOf(payload, "lvl"))
                   [] cls = "table" ->
                        TablePageItem(ValueOf(payload, "md"),
                                      ValueOf(payload, "rows"),
                                      ValueOf(payload, "csv"),
                                      IF HasKey(payload, "is_perfect_table")
                                      THEN ValueOf(payload, "is_perfect_table")
                                      ELSE FALSE)
                   [] cls = "PageItem" -> PageItem(ValueOf(payload, "md"))),
          raised |-> None]

\* encoding SectionContent.items
EncodeItemsOf(items) == [k \in 1..Len(items) |-> EncodePageItem(items[k])]

\* decoding SectionContent.items, declared Sequence[PageItem]: every
\* element is decoded as the Struct class PageItem
DecodeItemsOf(payloads) ==
    LET ds == [k \in 1..Len(payloads) |-> DecodeStruct(payloads[k], "PageItem")]
    IN  IF \E k \in DOMAIN ds : ds[k].raised # None
        THEN [ret |-> <<>>, raised |-> Some("ValidationError")]
        ELSE [ret |-> [k \in DOMAIN ds |-> ds[k].value[1]], raised |-> None]

\* the items of section secs[i] are encoded; the encoding is returned
EncodeItems(i) ==
    /\ calls' = Append(calls, Call("encode_items", <<i>>, <<>>,
                   [ret |-> EncodeItemsOf(secs[i].items), raised |-> None]))
    /\ UNCHANGED <<secs, files, rest>>

\* payloads are decoded as the items of a section
DecodeItems(payloads) ==
    /\ calls' = Append(calls, Call("decode_items", <<>>, <<payloads>>,
                   DecodeItemsOf(payloads)))
    /\ UNCHANGED <<secs, files, rest>>

----------------------------------------------------------------------------
(* A client that holds one section and either encodes its items and       *)
(* decodes the encoding, or decodes an item received from elsewhere.       *)

Discriminators == {"text", "heading", "table", "PageItem", "image"}

\* the item payloads received from elsewhere: any discriminator, with and
\* without a text field
WirePayloads ==
    {<<<<"type", d>>, <<"md", <<"m">>>>>> \o fs :
        d \in Discriminators, fs \in {<<>>, <<<<"text", <<"t">>>>>>}}

InitCodec ==
    /\ secs \in [1..1 -> Sections]
    /\ files = <<>>
    /\ calls = <<>>
    /\ imgs = <<>>
    /\ tasks = <<>>
    /\ requests = <<>>

NextCodec ==
    \/ Idle /\ EncodeItems(1)
    \/ /\ Len(calls) = 1
       /\ calls[1].op = "encode_items"
       /\ DecodeItems(calls[1].ret)
    \/ \E p \in WirePayloads : Idle /\ DecodeItems(<<p>>)

SpecCodec == InitCodec /\ [][NextCodec]_vars

VariantTags == {"text", "heading", "table"}

\* C13: decoding the encoding of an item yields an equal item of the same
\* variant, and the encoding of an item carries "type" with its variant's
\* value among "text", "heading", "table"
C13_ItemRoundTrip ==
    /\ \A k \in CallsOf("encode_items") :
          LET items == secs[calls[k].args[1]].items IN
          /\ Len(calls[k].ret) = Len(items)
          /\ \A n \in 1..Len(items) :
                /\ HasKey(calls[k].ret[n], "type")
                /\ ValueOf(calls[k].ret[n], "type") = items[n].type
                /\ items[n].type \in VariantTags
    /\ \A k \in CallsOf("decode_items") :
          (k > 1 /\ calls[k - 1].op = "encode_items"
                 /\ calls[k].input = <<calls[k - 1].ret>>) =>
              /\ calls[k].raised = None
              /\ calls[k].ret = secs[calls[k - 1].args[1]].items

\* the encoding of every item carries "type" with its variant's value, one
\* of three different values (the part of C13 the code satisfies)
C13_EncodingCarriesTag ==
    \A k \in CallsOf("encode_items") :
        LET items == secs[calls[k].args[1]].items IN
        \A n \in 1..Len(items) :
            /\ ValueOf(calls[k].ret[n], "type") = items[n].type
            /\ items[n].type \in VariantTags

\* decoded as its own class, the encoding of an item yields an equal item:
\* the failure of C13 lies in the class the declared reader decodes as
ItemRoundTripAsOwnClass ==
    \A i \in DOMAIN secs : \A n \in DOMAIN secs[i].items :
        LET item == secs[i].items[n] IN
        DecodeStruct(EncodePageItem(item), item.type) =
            [value |-> Some(item), raised |-> None]

\* C14: decoding an item payload whose discriminator is none of "text",
\* "heading", "table" fails with a decoding error
C14_UnknownDiscriminatorRejected ==
    \A k \in CallsOf("decode_items") :
        LET payloads == calls[k].input[1] IN
        (\E n \in DOMAIN payloads :
            /\ HasKey(payloads[n], "type")
            /\ ValueOf(payloads[n], "type") \notin VariantTags)
        => calls[k].raised # None

----------------------------------------------------------------------------
(* Schema inference.  `tasks` holds the invocations of get_schema and     *)
(* get_schema_async, each with the position of its coroutine; `requests`   *)
(* holds what the inference collaborator (synapse) was asked, each with    *)
(* its outcome once the collaborator has settled it.                       *)

DefaultTemperature == 1

\* repr() of a str without quotes or escapes in it
ReprStr(text) == <<"'">> \o text \o <<"'">>

\* str() of a list of str
FormatStrList(texts) ==
    <<"[">> \o Join([k \in 1..Len(texts) |-> ReprStr(texts[k])], <<",", " ">>)
            \o <<"]">>

ParsedFile_schema_prompt_Markup(self) ==
    <<"<document>", " ">>
    \o FormatStrList([k \in 1..Len(self.sections) |->
                          MdOrEmpty(self.sections[k].md)])
    \o <<" ", "</document>">>

\* f"<document> {[sec.text for sec in self.sections]} </document>"
ParsedFile_schema_prompt(self) ==
    <<"<document>", " ">>
    \o FormatStrList([k \in 1..Len(self.sections) |-> self.sections[k].text])
    \o <<" ", "</document>">>

\* the arguments of synapse.complete_async, as issued by task t
CompleteAsyncRequest(t, self) ==
    [task |-> t,
     prompt |-> ParsedFile_schema_prompt(self),
     system_prompt |-> "expert in natural language processing",
     response_model |-> "ChainOfThought[Schema]",
     temperature |-> DefaultTemperature,
     trace_params |-> [name |-> "NLP: Internal Entity Extraction",
                       user_id |-> "file_parser"],
     outcome |-> None]

\* an invocation on files[i]: its coroutine is suspended at the await
Task(op, i) ==
    [op |-> op, file |-> i, pc |-> "awaiting", ret |-> None, raised |-> None,
     returned |-> FALSE]

\* the outcomes of the awaited call: an output whose parsed.final_answer is
\* a schema, or an exception raised at the await
Returned(schema) == [parsed |-> [final_answer |-> schema], raised |-> None]

Raised(exc) == [parsed |-> None, raised |-> Some(exc)]

RequestOf(t) == CHOOSE r \in DOMAIN requests : requests[r].task = t

\* the coroutine runs from its start to the await: one request is issued
StartGetSchemaAsync(op, i) ==
    /\ tasks' = Append(tasks, Task(op, i))
    /\ requests' = Append(requests,
                          CompleteAsyncRequest(Len(tasks) + 1, files[i]))

\* the coroutine after the await: it returns output.parsed.final_answer,
\* and an exception raised at the await leaves it as it came
ResumedTask(task, outcome) ==
    IF outcome.raised # None
    THEN [task EXCEPT !.pc = "done", !.raised = outcome.raised]
    ELSE [task EXCEPT !.pc = "done", !.ret = Some(outcome.parsed.final_answer)]

\* await file.get_schema_async(synapse)
GetSchemaAsync(i) ==
    /\ StartGetSchemaAsync("get_schema_async", i)
    /\ UNCHANGED <<secs, files, calls, imgs>>

GetSchema_NoWait(i) ==
    /\ tasks' = Append(tasks, [Task("get_schema", i) EXCEPT !.returned = TRUE])
    /\ requests' = Append(requests,
                          CompleteAsyncRequest(Len(tasks) + 1, files[i]))
    /\ calls' = Append(calls, Call("get_schema", <<i>>, <<>>,
                                   [ret |-> None, raised |-> None]))
    /\ UNCHANGED <<secs, files, imgs>>

\* file.get_schema(synapse): run_sync is handed the coroutine function and
\* its argument, the caller stays inside run_sync
GetSchema(i) ==
    /\ StartGetSchemaAsync("get_schema", i)
    /\ UNCHANGED <<secs, files, calls, imgs>>

\* the collaborator settles request r
CompleteAsync(r, outcome) ==
    /\ requests[r].outcome = None
    /\ requests' = [requests EXCEPT ![r].outcome = Some(outcome)]
    /\ UNCHANGED <<secs, files, calls, imgs, tasks>>

GetSchemaAsyncResume_Retry(t) ==
    /\ tasks[t].pc = "awaiting"
    /\ \A r \in DOMAIN requests :
          requests[r].task = t => requests[r].outcome # None
    /\ LET r == CHOOSE q \in DOMAIN requests :
                    /\ requests[q].task = t
                    /\ \A q2 \in DOMAIN requests :
                          requests[q2].task = t => q2 <= q
           outcome == requests[r].outcome[1]
           done == ResumedTask(tasks[t], outcome)
           again == outcome.raised # None
                    /\ Cardinality({q \in DOMAIN requests :
                                       requests[q].task = t}) = 1
       IN  /\ tasks' = IF again THEN tasks ELSE [tasks EXCEPT ![t] = done]
           /\ requests' = IF again
                          THEN Append(requests,
                                 CompleteAsyncRequest(t, files[tasks[t].file]))
                          ELSE requests
           /\ calls' = IF ~again /\ tasks[t].op = "get_schema_async"
                       THEN Append(calls,
                              Call("get_schema_async", <<tasks[t].file>>, <<>>,
                                   [ret |-> done.ret, raised |-> done.raised]))
                       ELSE calls
    /\ UNCHANGED <<secs, files, imgs>>

GetSchemaAsyncResume_Swallow(t) ==
    /\ tasks[t].pc = "awaiting"
    /\ requests[RequestOf(t)].outcome # None
    /\ LET outcome == requests[RequestOf(t)].outcome[1]
           done == IF outcome.raised # None
                   THEN [tasks[t] EXCEPT !.pc = "done",
                                         !.ret = Some("emptySchema")]
                   ELSE ResumedTask(tasks[t], outcome)
       IN  /\ tasks' = [tasks EXCEPT ![t] = done]
           /\ calls' = IF tasks[t].op = "get_schema_async"
                       THEN Append(calls,
                              Call("get_schema_async", <<tasks[t].file>>, <<>>,
                                   [ret |-> done.ret, raised |-> done.raised]))
                       ELSE calls
    /\ UNCHANGED <<secs, files, imgs, requests>>

\* the awaited call is settled and the coroutine of task t runs to its
\* end; the caller of get_schema_async receives what it returns or raises
GetSchemaAsyncResume(t) ==
    /\ tasks[t].pc = "awaiting"
    /\ requests[RequestOf(t)].outcome # None
    /\ LET done == ResumedTask(tasks[t], requests[RequestOf(t)].outcome[1])
       IN  /\ tasks' = [tasks EXCEPT ![t] = done]
           /\ calls' = IF tasks[t].op = "get_schema_async"
                       THEN Append(calls,
                              Call("get_schema_async", <<tasks[t].file>>, <<>>,
                                   [ret |-> done.ret, raised |-> done.raised]))
                       ELSE calls
    /\ UNCHANGED <<secs, files, imgs, requests>>

\* run_sync returns to the caller of get_schema once the coroutine it
\* runs is done, with what the coroutine returned or raised
RunSync(t) ==
    /\ tasks[t].op = "get_schema"
    /\ tasks[t].pc = "done"
    /\ ~tasks[t].returned
    /\ tasks' = [tasks EXCEPT ![t].returned = TRUE]
    /\ calls' = Append(calls, Call("get_schema", <<tasks[t].file>>, <<>>,
                          [ret |-> tasks[t].ret, raised |-> tasks[t].raised]))
    /\ UNCHANGED <<secs, files, imgs, requests>>

----------------------------------------------------------------------------
(* Two documents, each the subject of at most one invocation, and a        *)
(* collaborator that answers, fails, times out or is cancelled.            *)

secA == SectionContent(1, <<"a">>, None, <<>>, <<>>)

secB == SectionContent(1, <<"b">>, Some(<<"x">>), <<img1>>, <<itemText>>)

secA2 == SectionContent(2, <<"a">>, Some(<<"y">>), <<>>,
                        <<itemHeading, itemTable>>)

SchemaFiles ==
    {ParsedFile(<<"f1">>, ss) :
        ss \in {<<>>, <<secA>>, <<secA2>>, <<secA, secB>>, <<secA2, secB>>,
                <<secB, secA>>}}

Schemas == {"schemaA", "schemaB"}

Failures == {"RuntimeError", "TimeoutError", "CancelledError"}

Outcomes == {Returned(s) : s \in Schemas} \cup {Raised(e) : e \in Failures}

InitSchema ==
    /\ secs = <<>>
    /\ files \in [1..2 -> SchemaFiles]
    /\ calls = <<>>
    /\ imgs = <<>>
    /\ tasks = <<>>
    /\ requests = <<>>

NoTaskFor(i) == \A t \in DOMAIN tasks : tasks[t].file # i

NextSchema ==
    \/ \E i \in DOMAIN files : NoTaskFor(i) /\ GetSchemaAsync(i)
    \/ \E i \in DOMAIN files : NoTaskFor(i) /\ GetSchema(i)
    \/ \E r \in DOMAIN requests : \E o \in Outcomes : CompleteAsync(r, o)
    \/ \E t \in DOMAIN tasks : GetSchemaAsyncResume(t)
    \/ \E t \in DOMAIN tasks : RunSync(t)

SpecSchema == InitSchema /\ [][NextSchema]_vars

SchemaOps == {"get_schema", "get_schema_async"}

RequestsOf(t) == {r \in DOMAIN requests : requests[r].task = t}

TaskOfCall(c) ==
    CHOOSE t \in DOMAIN tasks : tasks[t].file = c.args[1] /\ tasks[t].op = c.op

\* C15: every invocation of get_schema_async or get_schema has made exactly
\* one request to the collaborator, while it runs and once it has returned
\* or failed; the collaborator has received no other request
C15_OneRequestPerInvocation ==
    /\ \A t \in DOMAIN tasks : Cardinality(RequestsOf(t)) = 1
    /\ \A r \in DOMAIN requests : requests[r].task \in DOMAIN tasks
    /\ \A k \in DOMAIN calls :
          calls[k].op \in SchemaOps =>
              Cardinality(RequestsOf(TaskOfCall(calls[k]))) = 1

\* both documents have been the subject of an invocation, one through each
\* entry point, one has failed and one has returned a schema, and the
\* collaborator has received two requests
C15_Witness ==
    /\ Len(requests) = 2
    /\ \E k1, k2 \in DOMAIN calls :
          /\ calls[k1].op = "get_schema" /\ calls[k1].raised # None
          /\ calls[k2].op = "get_schema_async" /\ calls[k2].ret # None

\* C16: an invocation whose request failed (error, timeout, cancellation)
\* completes by raising that very failure and returning nothing, and the
\* step that completes it changes no document
C16_FailurePropagatesUnchanged ==
    [][\A k \in DOMAIN calls' :
          (k \notin DOMAIN calls /\ calls'[k].op \in SchemaOps) =>
              \A r \in DOMAIN requests :
                  (/\ tasks[requests[r].task].file = calls'[k].args[1]
                   /\ requests[r].outcome # None
                   /\ requests[r].outcome[1].raised # None)
                  => /\ calls'[k].raised = requests[r].outcome[1].raised
                     /\ calls'[k].raised[1] \in Failures
                     /\ calls'[k].ret = None
                     /\ files' = files
                     /\ Len(requests') = Len(requests)
      ]_vars

\* an invocation through each entry point has failed, one with a timeout
\* and one with a cancellation
C16_Witness ==
    \E k1, k2 \in DOMAIN calls :
        /\ calls[k1].op = "get_schema_async"
        /\ calls[k1].raised = Some("CancelledError")
        /\ calls[k2].op = "get_schema"
        /\ calls[k2].raised = Some("TimeoutError")

RECURSIVE QuotedTexts(_)
\* the texts of the sections, each between quotes, separated by ", "
QuotedTexts(ss) ==
    IF ss = <<>> THEN <<>>
    ELSE <<"'">> \o ss[1].text \o <<"'">>
         \o (IF Len(ss) = 1 THEN <<>> ELSE <<",", " ">>)
         \o QuotedTexts(Tail(ss))

TextsOf(f) == [k \in 1..Len(f.sections) |-> f.sections[k].text]

FileOfRequest(r) == files[tasks[requests[r].task].file]

\* C17: the prompt of every request is the list of the texts of the
\* document's sections in section order, one entry per section, between
\* the document marks; no markup appears in it, and two requests for
\* documents with the same sequence of texts carry the same prompt
C17_PromptFromSectionTexts ==
    /\ \A r \in DOMAIN requests :
          LET f == FileOfRequest(r) IN
          /\ requests[r].prompt =
                <<"<document>", " ", "[">> \o QuotedTexts(f.sections)
                    \o <<"]", " ", "</document>">>
          /\ Occurrences(requests[r].prompt, "'") = 2 * Len(f.sections)
          /\ Occurrences(requests[r].prompt, "x") = 0
          /\ Occurrences(requests[r].prompt, "y") = 0
    /\ \A r1, r2 \in DOMAIN requests :
          TextsOf(FileOfRequest(r1)) = TextsOf(FileOfRequest(r2)) =>
              requests[r1].prompt = requests[r2].prompt

\* two requests were made for two documents of two sections that have the
\* same texts and differ in number, markup, images and items
C17_Witness ==
    /\ Len(requests) = 2
    /\ files[1].sections = <<secA, secB>>
    /\ files[2].sections = <<secA2, secB>>
    /\ requests[1].prompt = requests[2].prompt

\* C18: get_schema has returned to its caller only if the coroutine of
\* get_schema_async it runs is done, and then with the schema the
\* coroutine returned or the failure it raised; until then the caller has
\* not been returned to
C18_GetSchemaBlocksUntilDone ==
    /\ \A t \in DOMAIN tasks :
          tasks[t].op = "get_schema" =>
              /\ tasks[t].pc # "done" => ~tasks[t].returned
              /\ tasks[t].returned <=>
                    \E k \in CallsOf("get_schema") :
                        calls[k].args = <<tasks[t].file>>
    /\ \A k \in CallsOf("get_schema") :
          \E t \in DOMAIN tasks :
              /\ tasks[t].op = "get_schema"
              /\ tasks[t].file = calls[k].args[1]
              /\ tasks[t].pc = "done"
              /\ \E r \in RequestsOf(t) :
                    /\ requests[r].outcome # None
                    /\ LET o == requests[r].outcome[1] IN
                       IF o.raised = None
                       THEN /\ calls[k].ret = Some(o.parsed.final_answer)
                            /\ calls[k].raised = None
                       ELSE /\ calls[k].ret = None
                            /\ calls[k].raised = o.raised

\* get_schema has returned a schema on one document, and on the other its
\* caller is still blocked although the collaborator has answered
C18_Witness ==
    \E t1, t2 \in DOMAIN tasks :
        /\ tasks[t1].op = "get_schema" /\ tasks[t1].returned
        /\ tasks[t1].ret \in {Some(sc) : sc \in Schemas}
        /\ tasks[t2].op = "get_schema" /\ ~tasks[t2].returned
        /\ requests[RequestOf(t2)].outcome # None

----------------------------------------------------------------------------
(* Threads.  In this part `tasks` maps each thread to the call it is in:  *)
(* a call reads its operand objects one after the other, other threads     *)
(* running in between, then builds its result from what it has read.       *)

Threads == {"t1", "t2"}

IdleThread == [pc |-> "idle", op |-> "", args |-> <<>>, read |-> <<>>]

\* the object a call's n-th operand names: a section for +, a file for
\* the operations of ParsedFile
Operand(op, args, n) ==
    IF op = "add" THEN secs[args[n]] ELSE files[args[n]]

ReturnInPlace(t) ==
    CASE t.op = "add" ->
            [secs |-> [secs EXCEPT ![t.args[1]] =
                          SectionContent_add(t.read[1], t.read[2])],
             files |-> files, ret |-> t.args[1]]
      [] t.op = "merge_all" ->
            [secs |-> secs,
             files |-> [files EXCEPT ![t.args[1]] =
                           ParsedFile_merge_all(t.read[1], Tail(t.read))],
             ret |-> t.args[1]]
      [] t.op = "from_parsed_files" ->
            [secs |-> secs,
             files |-> Append(files, ParsedFile_from_parsed_files(t.read)),
             ret |-> Len(files) + 1]
      [] t.op = "from_sections" ->
            [secs |-> secs,
             files |-> Append(files,
                          ParsedFile_from_sections(<<"f1">>, <<secA>>)),
             ret |-> Len(files) + 1]
      [] t.op = "md" ->
            [secs |-> secs, files |-> files, ret |-> ParsedFile_md(t.read[1])]
      [] t.op = "llm_described_text" ->
            [secs |-> secs, files |-> files,
             ret |-> ParsedFile_llm_described_text(t.read[1])]

\* what the call of thread record t does once its operands are read: +,
\* merge_all, from_parsed_files and from_sections construct a new object
\* and return it; the views return a string; nothing else is written
Return(t) ==
    CASE t.op = "add" ->
            [secs |-> Append(secs, SectionContent_add(t.read[1], t.read[2])),
             files |-> files, ret |-> Len(secs) + 1]
      [] t.op = "merge_all" ->
            [secs |-> secs,
             files |-> Append(files,
                          ParsedFile_merge_all(t.read[1], Tail(t.read))),
             ret |-> Len(files) + 1]
      [] t.op = "from_parsed_files" ->
            [secs |-> secs,
             files |-> Append(files, ParsedFile_from_parsed_files(t.read)),
             ret |-> Len(files) + 1]
      [] t.op = "from_sections" ->
            [secs |-> secs,
             files |-> Append(files,
                          ParsedFile_from_sections(<<"f1">>, <<secA>>)),
             ret |-> Len(files) + 1]
      [] t.op = "md" ->
            [secs |-> secs, files |-> files, ret |-> ParsedFile_md(t.read[1])]
      [] t.op = "llm_described_text" ->
            [secs |-> secs, files |-> files,
             ret |-> ParsedFile_llm_described_text(t.read[1])]

\* thread th enters a call
ThreadCall(th, op, args) ==
    /\ tasks[th].pc = "idle"
    /\ tasks' = [tasks EXCEPT ![th] =
                    [pc |-> "running", op |-> op, args |-> args,
                     read |-> <<>>]]
    /\ UNCHANGED <<secs, files, calls, imgs, requests>>

\* thread th reads the next operand of its call
ThreadRead(th) ==
    /\ tasks[th].pc = "running"
    /\ Len(tasks[th].read) < Len(tasks[th].args)
    /\ tasks' = [tasks EXCEPT ![th].read =
                    Append(@, Operand(tasks[th].op, tasks[th].args,
                                      Len(tasks[th].read) + 1))]
    /\ UNCHANGED <<secs, files, calls, imgs, requests>>

\* the call of thread th returns
ThreadReturn(th) ==
    /\ tasks[th].pc = "running"
    /\ Len(tasks[th].read) = Len(tasks[th].args)
    /\ LET r == Return(tasks[th]) IN
        /\ secs' = r.secs
        /\ files' = r.files
        /\ calls' = Append(calls,
                       [Call(tasks[th].op, tasks[th].args, <<>>,
                             [ret |-> r.ret, raised |-> None])
                          EXCEPT !.input = <<th>>])
    /\ tasks' = [tasks EXCEPT ![th].pc = "done"]
    /\ UNCHANGED <<imgs, requests>>

----------------------------------------------------------------------------
(* Two threads, each making one call on the two sections and the two      *)
(* files they share.                                                       *)

ThreadCalls ==
    {<<"add", <<1, 2>>>>, <<"add", <<2, 1>>>>, <<"merge_all", <<1, 2>>>>,
     <<"from_parsed_files", <<2, 1>>>>, <<"from_sections", <<>>>>,
     <<"md", <<1>>>>, <<"llm_described_text", <<1>>>>}

ThreadSections == {secA, secB, secA2}

ThreadFiles ==
    {ParsedFile(<<"f1">>, ss) : ss \in {<<>>, <<secA>>, <<secB, secA2>>}}

InitThreads ==
    /\ secs \in [1..2 -> ThreadSections]
    /\ files \in [1..2 -> ThreadFiles]
    /\ calls = <<>>
    /\ imgs = <<>>
    /\ tasks = [th \in Threads |-> IdleThread]
    /\ requests = <<>>

NextThreads ==
    \/ \E th \in Threads : \E c \in ThreadCalls : ThreadCall(th, c[1], c[2])
    \/ \E th \in Threads : ThreadRead(th)
    \/ \E th \in Threads : ThreadReturn(th)

SpecThreads == InitThreads /\ [][NextThreads]_vars

\* the result of a call made alone on the objects of heaps S and F: the
\* object a constructing call builds, the string a view returns
RunAlone(op, args, S, F) ==
    CASE op = "add" -> SectionContent_add(S[args[1]], S[args[2]])
      [] op = "merge_all" ->
            ParsedFile_merge_all(F[args[1]], Deref(F, Tail(args)))
      [] op = "from_parsed_files" ->
            ParsedFile_from_parsed_files(Deref(F, args))
      [] op = "from_sections" -> ParsedFile_from_sections(<<"f1">>, <<secA>>)
      [] op = "md" -> ParsedFile_md(F[args[1]])
      [] op = "llm_described_text" -> ParsedFile_llm_described_text(F[args[1]])

\* C19: whatever the interleaving of the threads, no step changes an
\* existing section or file, and a call that returns gives the result it
\* gives when made alone on its operands: a new object with that value
\* for +, merge_all, from_parsed_files and from_sections, that string for
\* the views
C19_ConcurrentCallsAsAlone ==
    [][/\ \A i \in DOMAIN secs : i \in DOMAIN secs' /\ secs'[i] = secs[i]
       /\ \A i \in DOMAIN files : i \in DOMAIN files' /\ files'[i] = files[i]
       /\ \A k \in DOMAIN calls' :
             k \notin DOMAIN calls =>
                LET c == calls'[k]
                    alone == RunAlone(c.op, c.args, secs, files)
                IN  CASE c.op = "add" ->
                            /\ c.ret \in DOMAIN secs' \ DOMAIN secs
                            /\ secs'[c.ret] = alone
                      [] c.op \in {"merge_all", "from_parsed_files",
                                   "from_sections"} ->
                            /\ c.ret \in DOMAIN files' \ DOMAIN files
                            /\ files'[c.ret] = alone
                      [] OTHER -> c.ret = alone
      ]_vars

\* both threads have merged the two shared sections, in opposite orders;
\* the one that returned last had read its first operand and not yet its
\* second when the other returned, and the sections differ
C19_Witness ==
    /\ secs[1] # secs[2]
    /\ Len(calls) = 1
    /\ calls[1].op = "add"
    /\ \E th \in Threads :
          /\ tasks[th].pc = "running"
          /\ tasks[th].op = "add"
          /\ tasks[th].args # calls[1].args
          /\ Len(tasks[th].read) = 1

----------------------------------------------------------------------------
(* Image values.  `imgs` holds the Image objects that were constructed or *)
(* decoded.  A value on the wire is null, a number or a string; pixel      *)
(* sizes are whole numbers here.                                           *)

Null == [kind |-> "null", n |-> 0]

Num(n) == [kind |-> "number", n |-> n]

Str == [kind |-> "string", n |-> 0]

\* Image(contents=..., height=..., width=...): the Struct stores what it
\* is given, the other fields take their default None
Image_new(contents, height, width) ==
    [contents |-> contents, ocr_text |-> None, height |-> height,
     width |-> width, name |-> None, alt |-> None]

\* decoding a value as Optional[float] under a Meta of title and
\* description: null and every number are accepted, anything else is not
DecodeOptionalFloat(v) ==
    CASE v.kind = "null" -> [value |-> None, raised |-> None]
      [] v.kind = "number" -> [value |-> Some(v.n), raised |-> None]
      [] OTHER -> [value |-> None, raised |-> Some("ValidationError")]

\* decoding an object as Image: contents is required, height and width
\* default to None
DecodeImage(payload) ==
    LET h == IF HasKey(payload, "height")
             THEN DecodeOptionalFloat(ValueOf(payload, "height"))
             ELSE [value |-> None, raised |-> None]
        w == IF HasKey(payload, "width")
             THEN DecodeOptionalFloat(ValueOf(payload, "width"))
             ELSE [value |-> None, raised |-> None]
    IN  IF ~HasKey(payload, "contents") \/ h.raised # None \/ w.raised # None
        THEN [value |-> None, raised |-> Some("ValidationError")]
        ELSE [value |-> Some(Image_new(ValueOf(payload, "contents"),
                                       h.value, w.value)),
              raised |-> None]

\* an Image is constructed
ImageConstruct(contents, height, width) ==
    /\ imgs' = Append(imgs, Image_new(contents, height, width))
    /\ calls' = Append(calls, Call("Image", <<>>, <<contents, height, width>>,
                          [ret |-> Len(imgs) + 1, raised |-> None]))
    /\ UNCHANGED <<secs, files, tasks, requests>>

\* an Image is decoded from a payload
ImageDecode(payload) ==
    /\ LET d == DecodeImage(payload) IN
        /\ imgs' = IF d.raised = None THEN Append(imgs, d.value[1]) ELSE imgs
        /\ calls' = Append(calls, Call("decode_image", <<>>, <<payload>>,
                          [ret |-> IF d.raised = None THEN Len(imgs) + 1 ELSE 0,
                           raised |-> d.raised]))
    /\ UNCHANGED <<secs, files, tasks, requests>>

----------------------------------------------------------------------------
(* A client that constructs one image and decodes one.                     *)

Dims == {-1, 0, 1}

OptionalDims == {None} \cup {Some(n) : n \in Dims}

WireDims == {<<>>, <<Null>>, <<Str>>} \cup {<<Num(n)>> : n \in Dims}

\* the image payloads: with and without contents, height and width absent,
\* null, a string or a number
ImagePayloads ==
    {c \o [k \in DOMAIN h |-> <<"height", h[k]>>]
       \o [k \in DOMAIN w |-> <<"width", w[k]>>] :
        c \in {<<>>, <<<<"contents", <<"c">>>>>>},
        h \in WireDims, w \in WireDims}

InitImage ==
    /\ secs = <<>>
    /\ files = <<>>
    /\ calls = <<>>
    /\ imgs = <<>>
    /\ tasks = <<>>
    /\ requests = <<>>

NextImage ==
    \/ \E h, w \in OptionalDims :
          CallsOf("Image") = {} /\ ImageConstruct(<<"c">>, h, w)
    \/ \E p \in ImagePayloads :
          CallsOf("decode_image") = {} /\ ImageDecode(p)

SpecImage == InitImage /\ [][NextImage]_vars

IsAbsentOrNonNegative(d) == d = None \/ d[1] >= 0

\* C20: every Image that was constructed or decoded has a height and a
\* width that are each absent or non-negative
C20_ImageDimsNonNegative ==
    \A i \in DOMAIN imgs :
        /\ IsAbsentOrNonNegative(imgs[i].height)
        /\ IsAbsentOrNonNegative(imgs[i].width)

\* decoding alone already yields an Image with a negative size
C20_DecodedDimsNonNegative ==
    \A k \in CallsOf("decode_image") :
        calls[k].raised = None =>
            /\ IsAbsentOrNonNegative(imgs[calls[k].ret].height)
            /\ IsAbsentOrNonNegative(imgs[calls[k].ret].width)

----------------------------------------------------------------------------
(* Schema values.  Schema is a frozen Struct, so a Schema is its value:   *)
(* the call that constructs or decodes one records it as what it returns.  *)
(* On the wire a field is an array, an object or a value of another type.  *)

EntitiesMinLength == 1

RelationsMinLength == 1

Arr(elems) == [kind |-> "array", elems |-> elems]

Obj(elems) == [kind |-> "object", elems |-> elems]

Scalar == [kind |-> "string", elems |-> <<>>]

\* Schema(entities=..., relations=..., validation_schema=...): the Struct
\* stores what it is given; the Meta constraints of the annotations are
\* not applied by the constructor
Schema_new(entities, relations, validation_schema) ==
    [entities |-> entities, relations |-> relations,
     validation_schema |-> validation_schema]

\* decoding a value as Sequence[str] under Meta(min_length=n): an array
\* of at least n elements is accepted, anything else is not
DecodeStrSequence(v, n) ==
    IF v.kind = "array" /\ Len(v.elems) >= n
    THEN [value |-> Some(v.elems), raised |-> None]
    ELSE [value |-> None, raised |-> Some("ValidationError")]

\* decoding a value as dict[str, Sequence[str]]
DecodeStrDict(v) ==
    IF v.kind = "object"
    THEN [value |-> Some(v.elems), raised |-> None]
    ELSE [value |-> None, raised |-> Some("ValidationError")]

\* decoding an object as Schema: the three fields are required
DecodeSchema(payload) ==
    IF \E key \in {"entities", "relations", "validation_schema"} :
           ~HasKey(payload, key)
    THEN [value |-> None, raised |-> Some("ValidationError")]
    ELSE LET e == DecodeStrSequence(ValueOf(payload, "entities"),
                                    EntitiesMinLength)
             r == DecodeStrSequence(ValueOf(payload, "relations"),
                                    RelationsMinLength)
             v == DecodeStrDict(ValueOf(payload, "validation_schema"))
         IN  IF e.raised # None \/ r.raised # None \/ v.raised # None
             THEN [value |-> None, raised |-> Some("ValidationError")]
             ELSE [value |-> Some(Schema_new(e.value[1], r.value[1],
                                             v.value[1])),
                   raised |-> None]

\* a Schema is constructed
SchemaConstruct(entities, relations, validation_schema) ==
    /\ calls' = Append(calls,
                   Call("Schema", <<>>,
                        <<entities, relations, validation_schema>>,
                        [ret |-> Some(Schema_new(entities, relations,
                                                 validation_schema)),
                         raised |-> None]))
    /\ UNCHANGED <<secs, files, rest>>

\* a Schema is decoded from a payload
SchemaDecode(payload) ==
    /\ LET d == DecodeSchema(payload) IN
        calls' = Append(calls, Call("decode_schema", <<>>, <<payload>>,
                           [ret |-> d.value, raised |-> d.raised]))
    /\ UNCHANGED <<secs, files, rest>>

----------------------------------------------------------------------------
(* A client that constructs one schema and decodes one.                    *)

NameSeqs == {<<>>, <<<<"Person">>>>, <<<<"Person">>, <<"Place">>>>}

ValidationSchemas == {<<>>, <<<<<<"Person">>, <<<<"lives_in">>>>>>>>}

WireNameSeqs == {<<>>, <<Scalar>>} \cup {<<Arr(ns)>> : ns \in NameSeqs}

\* the schema payloads: each field absent or present, the name fields an
\* array of zero, one or two names or a value that is no array
SchemaPayloads ==
    {[k \in DOMAIN e |-> <<"entities", e[k]>>]
       \o [k \in DOMAIN r |-> <<"relations", r[k]>>]
       \o [k \in DOMAIN v |-> <<"validation_schema", v[k]>>] :
        e \in WireNameSeqs, r \in WireNameSeqs,
        v \in {<<>>} \cup {<<Obj(vs)>> : vs \in ValidationSchemas}}

InitSchemaValue ==
    /\ secs = <<>>
    /\ files = <<>>
    /\ calls = <<>>
    /\ imgs = <<>>
    /\ tasks = <<>>
    /\ requests = <<>>

NextSchemaValue ==
    \/ \E e, r \in NameSeqs : \E v \in ValidationSchemas :
          CallsOf("Schema") = {} /\ SchemaConstruct(e, r, v)
    \/ \E p \in SchemaPayloads :
          CallsOf("decode_schema") = {} /\ SchemaDecode(p)

SpecSchemaValue == InitSchemaValue /\ [][NextSchemaValue]_vars

\* C21: every Schema that was constructed or decoded has at least one
\* entity name and at least one relation name
C21_SchemaNamesNonEmpty ==
    \A k \in CallsOf("Schema") \cup CallsOf("decode_schema") :
        calls[k].raised = None =>
            /\ calls[k].ret[1].entities # <<>>
            /\ calls[k].ret[1].relations # <<>>

\* the decoded half of C21, which the code satisfies: a payload with an
\* empty, missing or non-array entities or relations field is rejected
C21_DecodedNamesNonEmpty ==
    \A k \in CallsOf("decode_schema") :
        LET p == calls[k].input[1]
            isNames(key) == /\ HasKey(p, key)
                            /\ ValueOf(p, key).kind = "array"
                            /\ ValueOf(p, key).elems # <<>>
        IN  /\ calls[k].raised = None =>
                  /\ calls[k].ret[1].entities # <<>>
                  /\ calls[k].ret[1].relations # <<>>
            /\ (~isNames("entities") \/ ~isNames("relations")) =>
                  calls[k].raised = Some("ValidationError")

----------------------------------------------------------------------------
(* A client that holds two parsed files and combines the same non-empty   *)
(* sequence of them both ways: with from_parsed_files, and with merge_all  *)
(* called on the first with the remaining ones.                            *)

EquivFiles ==
    {ParsedFile(nm, ss) :
        nm \in {<<"f1">>, MergedFileName},
        ss \in {<<>>, <<secA>>, <<secB, secA2>>}}

\* the non-empty sequences of files combined: a first file and at most
\* MaxOthers further ones
EquivIds == SeqsUpTo(1..2, MaxOthers + 1) \ {<<>>}

InitEquiv ==
    /\ secs = <<>>
    /\ files \in [1..2 -> EquivFiles]
    /\ calls = <<>>
    /\ imgs = <<>>
    /\ tasks = <<>>
    /\ requests = <<>>

NextEquiv ==
    \/ \E ids \in EquivIds : Idle /\ FromParsedFiles(ids)
    \/ \E ids \in EquivIds : Idle /\ MergeAll(ids[1], Tail(ids))
    \/ /\ Len(calls) = 1
       /\ calls[1].op = "from_parsed_files"
       /\ MergeAll(calls[1].args[1], Tail(calls[1].args))
    \/ /\ Len(calls) = 1
       /\ calls[1].op = "merge_all"
       /\ FromParsedFiles(calls[1].args)

SpecEquiv == InitEquiv /\ [][NextEquiv]_vars

\* C22: from_parsed_files(fs) and fs[1].merge_all(fs[2..]) on the same
\* non-empty fs return files with the same sections element for element;
\* the first is named "MergedFile", the second as fs[1], and they differ
\* in nothing else
C22_FromParsedFilesIsMergeAll ==
    \A k1 \in CallsOf("from_parsed_files"), k2 \in CallsOf("merge_all") :
        (calls[k1].args = calls[k2].args /\ calls[k1].args # <<>>) =>
            LET a == files[calls[k1].ret]
                b == files[calls[k2].ret]
            IN  /\ calls[k1].raised = None /\ calls[k2].raised = None
                /\ Len(a.sections) = Len(b.sections)
                /\ \A n \in 1..Len(a.sections) : a.sections[n] = b.sections[n]
                /\ a.name = <<"MergedFile">>
                /\ b.name = files[calls[k1].args[1]].name
                /\ [a EXCEPT !.name = b.name] = b

\* both were called on three files, the first named f1 and not empty, the
\* second unlike the first, and the results have four sections or more
C22_Witness ==
    \E k1 \in CallsOf("from_parsed_files"), k2 \in CallsOf("merge_all") :
        /\ calls[k1].args = calls[k2].args
        /\ Len(calls[k1].args) = 3
        /\ files[calls[k1].args[1]].name = <<"f1">>
        /\ files[calls[k1].args[1]].sections # <<>>
        /\ files[calls[k1].args[2]].sections # files[calls[k1].args[1]].sections
        /\ Len(files[calls[k1].ret].sections) >= 4
        /\ files[calls[k1].ret] # files[calls[k2].ret]

----------------------------------------------------------------------------
(* A client that holds one parsed file and reads both of its views.       *)

\* a section whose markup is present and empty
sectionEmptyMarkup == SectionContent(1, <<"a">>, Some(<<>>), <<>>, <<>>)

BothViewFiles ==
    {ParsedFile(nm, ss) :
        nm \in FileNames,
        ss \in SeqsUpTo(FileSections
                            \cup {sectionTagInMarkup, sectionEmptyMarkup},
                        MaxFileLen)}

InitBothViews ==
    /\ secs = <<>>
    /\ files \in [1..1 -> BothViewFiles]
    /\ calls = <<>>
    /\ imgs = <<>>
    /\ tasks = <<>>
    /\ requests = <<>>

NextBothViews ==
    \/ Idle /\ Md(1)
    \/ Idle /\ LlmDescribedText(1)
    \/ Len(calls) = 1 /\ calls[1].op = "md" /\ LlmDescribedText(1)
    \/ Len(calls) = 1 /\ calls[1].op = "llm_described_text" /\ Md(1)

SpecBothViews == InitBothViews /\ [][NextBothViews]_vars

\* the atoms a section takes in a view: those of its markup, or absentWidth
\* atoms when it has none
BodyWidth(s, absentWidth) == IF s.md = None THEN absentWidth ELSE Len(s.md[1])

\* where section j starts in the md view: after the sections before it,
\* each followed by one line break
RECURSIVE MdBodyStart(_, _)
MdBodyStart(ss, j) ==
    IF j = 1 THEN 1
    ELSE MdBodyStart(ss, j - 1) + BodyWidth(ss[j - 1], 0) + 1

\* the atoms of an opening tag and the blank after it, and of a closing
\* tag and the blank before it, for position i
TagWidth(i) == 3 + Len(FormatInt(i))

\* where the body of section j starts in the LLM view: after the head,
\* the sections before it (tags, body, one blank each) and its opening tag
RECURSIVE LlmBodyStart(_, _, _)
LlmBodyStart(name, ss, j) ==
    IF j = 1 THEN Len(LlmHead(name)) + TagWidth(0) + 1
    ELSE LlmBodyStart(name, ss, j - 1) + BodyWidth(ss[j - 1], 1)
             + TagWidth(j - 2) + 1 + TagWidth(j - 1)

Segment(out, start, width) == SubSeq(out, start, start + width - 1)

\* C23: read on the same file, the two views agree on a section whose
\* markup is present (both embed that markup) and differ on a section
\* whose markup is absent: the md view has nothing at its place (its
\* length is that of the present markups plus the line breaks), the LLM
\* view has the text "None" between the section's delimiter tags
C23_ViewsDifferOnAbsentMarkup ==
    \A k1 \in CallsOf("md"), k2 \in CallsOf("llm_described_text") :
        calls[k1].args = calls[k2].args =>
            LET f == files[calls[k1].args[1]]
                ss == f.sections
                n == Len(ss)
                mdOut == calls[k1].ret
                llmOut == calls[k2].ret
            IN  /\ Len(mdOut) =
                       MarkupLength(ss, n) + (IF n = 0 THEN 0 ELSE n - 1)
                /\ \A j \in 1..n :
                      LET m == MdBodyStart(ss, j)
                          b == LlmBodyStart(f.name, ss, j)
                          w == BodyWidth(ss[j], 1)
                          inMd == Segment(mdOut, m, BodyWidth(ss[j], 0))
                          inLlm == Segment(llmOut, b, w)
                      IN  /\ b + w + Len(FormatInt(j - 1)) + 2 <= Len(llmOut)
                          /\ SubSeq(llmOut, b - TagWidth(j - 1), b - 1) =
                                 <<"<section_">> \o FormatInt(j - 1)
                                     \o <<">", " ">>
                          /\ SubSeq(llmOut, b + w,
                                    b + w + TagWidth(j - 1) - 1) =
                                 <<" ", "</section_">> \o FormatInt(j - 1)
                                     \o <<">">>
                          /\ j < n => mdOut[m + BodyWidth(ss[j], 0)] = "\n"
                          /\ IF ss[j].md = None
                             THEN inMd = <<>> /\ inLlm = <<"None">>
                             ELSE inMd = ss[j].md[1] /\ inLlm = ss[j].md[1]

\* both views of a file of two sections have been read, the first section
\* without markup and the second with a markup that is not empty
C23_Witness ==
    /\ Len(calls) = 2
    /\ calls[1].op # calls[2].op
    /\ Len(files[1].sections) = 2
    /\ files[1].sections[1].md = None
    /\ files[1].sections[2].md \notin {None, Some(<<>>)}

====
